---------------------------- MODULE Spec2Model ----------------------------
(***************************************************************************)
(* A model of scripts/build_feed.py: the conversion of an RGSX cache       *)
(* (systems list, mapping table, per-system games files) into one feed     *)
(* document.                                                               *)
(*                                                                         *)
(* Python strings are sequences of one-character strings, so that          *)
(* str.strip, str.lower, str.split, urllib.parse.unquote,                  *)
(* os.path.splitext and the ROM_EXT_RE regular expression are computed     *)
(* character by character.  Python's None is the value None below; a       *)
(* dictionary key that is missing is modelled as a key holding None,       *)
(* which is what dict.get returns for it.                                  *)
(***************************************************************************)
EXTENDS Integers, Sequences, FiniteSets, TLC

VARIABLES
    pc,          \* position of the running call
    call,        \* the function called and its arguments (for main: the
                 \* environment, the flags and the files it reads)
    ret,         \* the value the call returned (None until it returns); in
                 \* build_items, the list "items" being built
    pos,         \* how many elements the running for loop has consumed
    config,      \* generate_feed: the Config built by build_config
    systems,     \* generate_feed: the loaded systems list
    mapping,     \* generate_feed: the loaded mapping table
    feed,        \* generate_feed: the feed under construction
    log,         \* the warning and error messages logged so far
    opened,      \* the games files load_json was asked for, in order
    stdout,      \* what was printed
    output_file  \* the content of config.output_path

\* the local state and the effects of main and generate_feed
run == <<config, systems, mapping, feed, log, opened, stdout, output_file>>

vars == <<pc, call, ret, pos, run>>

(***************************************************************************)
(* Python values                                                           *)
(***************************************************************************)
None == <<"None">>

\* bool(x) for x an Optional[str] or an Optional[list]
Truthy(x) == x # None /\ x # <<>>

\* Python's "a or b"
Or(a, b) == IF Truthy(a) THEN a ELSE b

UpperCase == <<"A","B","C","D","E","F","G","H","I","J","K","L","M",
               "N","O","P","Q","R","S","T","U","V","W","X","Y","Z">>
LowerCase == <<"a","b","c","d","e","f","g","h","i","j","k","l","m",
               "n","o","p","q","r","s","t","u","v","w","x","y","z">>

lower_char(c) ==
    IF \E i \in DOMAIN UpperCase : UpperCase[i] = c
    THEN LowerCase[CHOOSE i \in DOMAIN UpperCase : UpperCase[i] = c]
    ELSE c

\* str.lower()
lower(s) == [i \in 1..Len(s) |-> lower_char(s[i])]

Whitespace == {" ", "\t", "\n", "\r"}

RECURSIVE lstrip(_, _)
\* str.lstrip(chars)
lstrip(s, chars) ==
    IF s # <<>> /\ Head(s) \in chars THEN lstrip(Tail(s), chars) ELSE s

RECURSIVE rstrip(_, _)
\* str.rstrip(chars)
rstrip(s, chars) ==
    IF s # <<>> /\ s[Len(s)] \in chars
    THEN rstrip(SubSeq(s, 1, Len(s) - 1), chars)
    ELSE s

\* str.strip()
strip(s) == lstrip(rstrip(s, Whitespace), Whitespace)

\* str.rfind(c), 1-based, 0 when c does not occur
rfind(s, c) ==
    IF \E i \in 1..Len(s) : s[i] = c
    THEN CHOOSE i \in 1..Len(s) : s[i] = c /\ \A j \in (i+1)..Len(s) : s[j] # c
    ELSE 0

\* s.split(c)[-1]
split_last(s, c) == SubSeq(s, rfind(s, c) + 1, Len(s))

RECURSIVE split(_, _)
\* s.split(c): the list of the pieces between occurrences of c
split(s, c) ==
    IF \E i \in 1..Len(s) : s[i] = c
    THEN LET i == CHOOSE k \in 1..Len(s) : s[k] = c /\ \A j \in 1..(k-1) : s[j] # c
         IN <<SubSeq(s, 1, i - 1)>> \o split(SubSeq(s, i + 1, Len(s)), c)
    ELSE <<s>>

\* The percent escapes urllib.parse.unquote decodes, as far as the model's
\* alphabet spells them: %20 %28 %29 %2E %2F %25 (hex digits in either case).
PercentHex == { <<"2","0">>, <<"2","8">>, <<"2","9">>, <<"2","E">>, <<"2","e">>,
                <<"2","F">>, <<"2","f">>, <<"2","5">> }

PercentDecoded(h) ==
    CASE h = <<"2","0">> -> " "
      [] h = <<"2","8">> -> "("
      [] h = <<"2","9">> -> ")"
      [] h \in {<<"2","E">>, <<"2","e">>} -> "."
      [] h \in {<<"2","F">>, <<"2","f">>} -> "/"
      [] h = <<"2","5">> -> "%"

RECURSIVE unquote(_)
\* urllib.parse.unquote: an escape that is not two hex digits stays as it is
unquote(s) ==
    IF s = <<>> THEN <<>>
    ELSE IF Head(s) = "%" /\ Len(s) >= 3 /\ <<s[2], s[3]>> \in PercentHex
         THEN <<PercentDecoded(<<s[2], s[3]>>)>> \o unquote(SubSeq(s, 4, Len(s)))
         ELSE <<Head(s)>> \o unquote(Tail(s))

\* os.path.splitext(p)[0] (posixpath): the extension starts at the last dot
\* of the last path component, unless only dots precede it there
splitext_root(p) ==
    LET sepIndex == rfind(p, "/")
        dotIndex == rfind(p, ".")
    IN IF dotIndex > sepIndex
          /\ \E k \in (sepIndex + 1)..(dotIndex - 1) : p[k] # "."
       THEN SubSeq(p, 1, dotIndex - 1)
       ELSE p

(***************************************************************************)
(* ROM_EXT_RE and the title functions                                      *)
(***************************************************************************)
\* the alternatives of ROM_EXT_RE, lower-cased (iso occurs twice in the source)
ROM_EXT_RE == { <<"z","i","p">>, <<"7","z">>, <<"c","h","d">>, <<"r","a","r">>,
                <<"i","s","o">>, <<"b","i","n">>, <<"c","u","e">>, <<"g","b","a">>,
                <<"g","b","c">>, <<"g","b">>, <<"n","e","s">>, <<"s","f","c">>,
                <<"s","m","c">>, <<"s","m","d">>, <<"m","d">>, <<"p","c","e">>,
                <<"i","m","g">> }

\* whether "\.(ext)" matches, ignoring case, the characters of s that end at
\* position endpos
ROM_EXT_RE_ends(s, endpos) ==
    \E e \in ROM_EXT_RE :
        /\ endpos >= Len(e) + 1
        /\ s[endpos - Len(e)] = "."
        /\ lower(SubSeq(s, endpos - Len(e) + 1, endpos)) = e

\* the length of the match that ends at endpos, the dot included
ROM_EXT_RE_len(s, endpos) ==
    1 + Len(CHOOSE e \in ROM_EXT_RE :
                /\ endpos >= Len(e) + 1
                /\ s[endpos - Len(e)] = "."
                /\ lower(SubSeq(s, endpos - Len(e) + 1, endpos)) = e)

\* ROM_EXT_RE compiled without re.IGNORECASE
ROM_EXT_RE_sub_case_sensitive(s) ==
    IF \E e \in ROM_EXT_RE :
          Len(s) >= Len(e) + 1 /\ SubSeq(s, Len(s) - Len(e), Len(s)) = <<".">> \o e
    THEN SubSeq(s, 1, Len(s) - ROM_EXT_RE_len(s, Len(s)))
    ELSE s

\* ROM_EXT_RE.sub("", s): "$" matches at the end of the string and also just
\* before a newline that ends the string
ROM_EXT_RE_sub(s) ==
    IF ROM_EXT_RE_ends(s, Len(s))
    THEN SubSeq(s, 1, Len(s) - ROM_EXT_RE_len(s, Len(s)))
    ELSE IF Len(s) >= 1 /\ s[Len(s)] = "\n" /\ ROM_EXT_RE_ends(s, Len(s) - 1)
         THEN SubSeq(s, 1, Len(s) - 1 - ROM_EXT_RE_len(s, Len(s) - 1)) \o <<"\n">>
         ELSE s

\* an empty final segment reported as None
derive_title_from_url_or_none(url) ==
    IF ~Truthy(url) THEN None
    ELSE LET segment == unquote(split_last(url, "/"))
         IN Or(Or(splitext_root(segment), segment), None)

derive_title_from_url(url) ==
    IF ~Truthy(url) THEN None
    ELSE LET segment == unquote(split_last(url, "/"))
         IN Or(splitext_root(segment), segment)

clean_title(raw_title, rom_url) ==
    LET stripped == strip(Or(raw_title, <<>>))
        candidate == IF stripped # <<>>
                     THEN strip(ROM_EXT_RE_sub(stripped))
                     ELSE stripped
        derived == IF candidate = <<>> /\ Truthy(rom_url)
                   THEN strip(ROM_EXT_RE_sub(Or(derive_title_from_url(rom_url), <<>>)))
                   ELSE candidate
    IN Or(derived, None)

(***************************************************************************)
(* Inputs: strings are concatenations of a few tokens                      *)
(***************************************************************************)
MaxTitleTokens == 3
MaxUrlTokens == 3

RECURSIVE Concat(_)
Concat(toks) == IF toks = <<>> THEN <<>> ELSE Head(toks) \o Concat(Tail(toks))

StringsOf(tokens, n) ==
    { Concat(t) : t \in UNION { [1..k -> tokens] : k \in 0..n } }

TitleTokens == { <<"a">>, <<" ">>, <<".">>, <<".","g","b">>, <<".","G","b","A">>,
                 <<".","t">> }

UrlTokens == { <<"x">>, <<"/">>, <<".">>, <<".","g","b">>, <<".","M","D">>,
               <<".","t">>, <<"%","2","0">>, <<"%","2","e">>, <<"%">> }

Titles == StringsOf(TitleTokens, MaxTitleTokens)
Urls == StringsOf(UrlTokens, MaxUrlTokens)

\* raw titles that clean to nothing, which send clean_title to the locator
BlankTitles == { None, <<>>, <<" ">>, <<".","g","b">>, <<" ",".","G","b","A"," ">> }

SomeUrls == { None, <<>>, <<"h","/","x",".","g","b">> }

(***************************************************************************)
(* The title functions, called on every input                              *)
(***************************************************************************)
\* no run of main is in progress: the function alone is called
NoRun ==
    /\ config = None /\ systems = None /\ mapping = None /\ feed = None
    /\ log = <<>> /\ opened = <<>> /\ stdout = <<>> /\ output_file = <<>>

InitTitle ==
    /\ pc = "call"
    /\ ret = None
    /\ pos = 0
    /\ NoRun
    /\ \/ \E t \in Titles \cup {None}, u \in SomeUrls :
              call = [fn |-> "clean_title", raw_title |-> t, rom_url |-> u]
       \/ \E t \in BlankTitles, u \in Urls :
              call = [fn |-> "clean_title", raw_title |-> t, rom_url |-> u]
       \/ \E u \in Urls \cup {None} :
              call = [fn |-> "derive_title_from_url", raw_title |-> None, rom_url |-> u]

CallCleanTitle ==
    /\ pc = "call"
    /\ call.fn = "clean_title"
    /\ ret' = clean_title(call.raw_title, call.rom_url)
    /\ pc' = "return"
    /\ UNCHANGED <<call, pos, run>>

CallDeriveTitle ==
    /\ pc = "call"
    /\ call.fn = "derive_title_from_url"
    /\ ret' = derive_title_from_url(call.rom_url)
    /\ pc' = "return"
    /\ UNCHANGED <<call, pos, run>>

NextTitle == CallCleanTitle \/ CallDeriveTitle

SpecTitle == InitTitle /\ [][NextTitle]_vars


(***************************************************************************)
(* Claims about the title functions                                        *)
(***************************************************************************)
ReturnedFrom(fn) == pc = "return" /\ call.fn = fn

\* s ends with a dot and a recognized extension, in either case
EndsWithRomExt(s) ==
    \E e \in ROM_EXT_RE :
        /\ Len(s) >= Len(e) + 1
        /\ lower(SubSeq(s, Len(s) - Len(e), Len(s))) = <<".">> \o e

\* the strings s becomes when one trailing dot-and-recognized-extension is cut
CutOneRomExt(s) ==
    { SubSeq(s, 1, Len(s) - Len(e) - 1) : e \in
        { x \in ROM_EXT_RE : /\ Len(s) >= Len(x) + 1
                             /\ lower(SubSeq(s, Len(s) - Len(x), Len(s))) = <<".">> \o x } }

\* the text clean_title takes the title from: the trimmed raw title, or the
\* decoded final segment of the locator when the raw title cleans to nothing
TitleSource(raw_title, rom_url) ==
    LET t == strip(Or(raw_title, <<>>))
    IN IF t # <<>> /\ (\A c \in CutOneRomExt(t) : strip(c) # <<>>)
       THEN t
       ELSE IF Truthy(rom_url) THEN unquote(split_last(rom_url, "/")) ELSE <<>>

\* C5 as stated: clean_title removes at most one recognized extension from the
\* end of its title source, the locator's final segment included (the result
\* is never the source less two recognized extensions), and returns a title
\* with no recognized extension and no surrounding whitespace unchanged.
C5_AtMostOneExtensionAnySource ==
    ReturnedFrom("clean_title") =>
        LET src == TitleSource(call.raw_title, call.rom_url)
        IN /\ ~ \E c1 \in CutOneRomExt(src) : \E c2 \in CutOneRomExt(c1) :
                    ret = strip(c2)
           /\ ( /\ Truthy(call.raw_title)
                /\ strip(call.raw_title) = call.raw_title
                /\ ~EndsWithRomExt(call.raw_title) ) => ret = call.raw_title

\* C5 amended: a raw title that does not clean to nothing loses exactly one
\* recognized trailing extension (matched in either case) when it has one and
\* is otherwise only trimmed, so a non-empty title with no recognized
\* extension and no surrounding whitespace is returned unchanged; a title
\* taken from the locator is derive_title_from_url's result, which has lost
\* the segment's last extension of any kind, less one further recognized
\* extension, so that two extensions can leave the segment.
C5_OneExtensionFromRawTitle ==
    ReturnedFrom("clean_title") =>
        LET t == strip(Or(call.raw_title, <<>>))
            fromRaw == t # <<>> /\ (\A c \in CutOneRomExt(t) : strip(c) # <<>>)
            d == Or(derive_title_from_url(call.rom_url), <<>>)
        IN /\ (fromRaw /\ EndsWithRomExt(t)) =>
                  \E c \in CutOneRomExt(t) : ret = strip(c)
           /\ (fromRaw /\ ~EndsWithRomExt(t)) => ret = t
           /\ ( /\ Truthy(call.raw_title)
                /\ strip(call.raw_title) = call.raw_title
                /\ ~EndsWithRomExt(call.raw_title) ) => ret = call.raw_title
           /\ ~fromRaw =>
                  \/ ret = None /\ (strip(d) = <<>> \/ \E c \in CutOneRomExt(d) : strip(c) = <<>>)
                  \/ ret # None /\ ~EndsWithRomExt(d) /\ ret = strip(d)
                  \/ ret # None /\ \E c \in CutOneRomExt(d) : ret = strip(c)

\* a raw title with an upper-case extension lost exactly that extension
C5_Witness ==
    /\ ReturnedFrom("clean_title")
    /\ call.raw_title = <<"a", ".", "g", "b", ".", "G", "b", "A">>
    /\ ret = <<"a", ".", "g", "b">>

\* the final path segment of url, percent-decoded
DecodedSegment(url) == unquote(split_last(url, "/"))

\* s with the extension of its last path component cut: the last dot and what
\* follows it, when something other than dots precedes that dot
ExtensionCut(s) ==
    IF \E k \in 1..Len(s) :
          /\ s[k] = "."
          /\ \A j \in (k+1)..Len(s) : s[j] \notin {".", "/"}
          /\ \E j \in 1..(k-1) : s[j] # "." /\ \A i \in j..(k-1) : s[i] # "/"
    THEN SubSeq(s, 1, (CHOOSE k \in 1..Len(s) :
                          s[k] = "." /\ \A j \in (k+1)..Len(s) : s[j] # ".") - 1)
    ELSE s

\* C9 as stated: the result is the decoded final segment less its extension,
\* the decoded segment when that is empty, and absent when the segment itself
\* is empty.
C9_EmptySegmentIsAbsent ==
    (ReturnedFrom("derive_title_from_url") /\ Truthy(call.rom_url)) =>
        LET seg == DecodedSegment(call.rom_url)
        IN IF seg = <<>> THEN ret = None
           ELSE IF ExtensionCut(seg) = <<>> THEN ret = seg
           ELSE ret = ExtensionCut(seg)

\* C9 amended: as stated, except that an empty segment (the URL ends with
\* "/") gives the empty string; the result is absent only when the URL itself
\* is absent or empty.
C9_EmptySegmentIsEmptyString ==
    ReturnedFrom("derive_title_from_url") =>
        IF ~Truthy(call.rom_url) THEN ret = None
        ELSE LET seg == DecodedSegment(call.rom_url)
             IN /\ ret # None
                /\ IF seg = <<>> THEN ret = <<>>
                   ELSE IF ExtensionCut(seg) = <<>> THEN ret = seg
                   ELSE ret = ExtensionCut(seg)

\* a URL that ends with "/" gave the empty string
C9_Witness ==
    /\ ReturnedFrom("derive_title_from_url")
    /\ call.rom_url = <<"x", "/">>
    /\ ret = <<>>


(***************************************************************************)
(* Game records: resolve_rom_url, normalize_game_entry, build_items        *)
(***************************************************************************)
\* the keys the code reads from a game record; {} is the record with every
\* key missing
GameKeys == { "title", "name", "url", "rom", "href", "path", "rom_path",
              "img", "thumbnail", "image", "background", "banner",
              "screenshot", "size" }

EmptyGame == [k \in GameKeys |-> None]

\* an explicit locator loses to a locator built from the prefix
resolve_rom_url_prefix_first(game, rom_prefix) ==
    LET candidate == Or(game["path"], game["rom_path"])
        url == Or(Or(game["url"], game["rom"]), game["href"])
    IN IF Truthy(rom_prefix) /\ Truthy(candidate)
       THEN rom_prefix \o <<"/">> \o lstrip(candidate, {"/"})
       ELSE IF Truthy(url) THEN url ELSE None

resolve_rom_url(game, rom_prefix) ==
    LET url == Or(Or(game["url"], game["rom"]), game["href"])
        candidate == Or(game["path"], game["rom_path"])
    IN IF Truthy(url) THEN url
       ELSE IF Truthy(rom_prefix) /\ Truthy(candidate)
            THEN rom_prefix \o <<"/">> \o lstrip(candidate, {"/"})
            ELSE None

extract_thumbnail(game) == Or(Or(game["img"], game["thumbnail"]), game["image"])

extract_background(game) ==
    Or(Or(game["background"], game["banner"]), game["screenshot"])

\* A raw game entry is one of four shapes; the field named by shape holds it.
DictEntry(d) == [shape |-> "dict", dict |-> d, list |-> <<>>, str |-> <<>>]
ListEntry(l) == [shape |-> "list", dict |-> EmptyGame, list |-> l, str |-> <<>>]
StrEntry(t) == [shape |-> "str", dict |-> EmptyGame, list |-> <<>>, str |-> t]
OtherEntry == [shape |-> "other", dict |-> EmptyGame, list |-> <<>>, str |-> <<>>]

normalize_game_entry(entry) ==
    CASE entry.shape = "dict" -> entry.dict
      [] entry.shape = "list" ->
            [k \in GameKeys |->
                CASE k = "title" /\ Len(entry.list) > 0 -> entry.list[1]
                  [] k = "url" /\ Len(entry.list) > 1 -> entry.list[2]
                  [] k = "size" /\ Len(entry.list) > 2 -> entry.list[3]
                  [] OTHER -> None]
      [] entry.shape = "str" -> [EmptyGame EXCEPT !["title"] = entry.str]
      [] OTHER -> EmptyGame

\* the item of lines 209-223; a thumbnail or background key that is not set
\* holds None
Item(title, system_type, rom_url, game) ==
    [ title |-> title,
      type |-> system_type,
      props |-> [rom |-> rom_url],
      thumbnail |-> Or(extract_thumbnail(game), None),
      background |-> Or(extract_background(game), None) ]

\* the loop body with the item put in front of the list
build_items_step_prepend(items, raw_game, system_type, rom_prefix) ==
    LET game == normalize_game_entry(raw_game)
        rom_url == resolve_rom_url(game, rom_prefix)
        title == clean_title(Or(game["title"], game["name"]), rom_url)
    IN IF ~Truthy(title) \/ ~Truthy(rom_url) THEN items
       ELSE <<Item(title, system_type, rom_url, game)>> \o items

\* one pass of the body of the for loop of build_items
build_items_step(items, raw_game, system_type, rom_prefix) ==
    LET game == normalize_game_entry(raw_game)
        rom_url == resolve_rom_url(game, rom_prefix)
        title == clean_title(Or(game["title"], game["name"]), rom_url)
    IN IF ~Truthy(title) \/ ~Truthy(rom_url) THEN items
       ELSE Append(items, Item(title, system_type, rom_url, game))

RECURSIVE build_items_from(_, _, _, _)
build_items_from(items, games, system_type, rom_prefix) ==
    IF games = <<>> THEN items
    ELSE build_items_from(build_items_step(items, Head(games), system_type, rom_prefix),
                          Tail(games), system_type, rom_prefix)

build_items(games, system_type, rom_prefix) ==
    build_items_from(<<>>, games, system_type, rom_prefix)

(***************************************************************************)
(* resolve_rom_url, called on every record                                 *)
(***************************************************************************)
UrlRecords ==
    { [EmptyGame EXCEPT !["url"] = u, !["rom"] = r, !["href"] = h,
                        !["path"] = p, !["rom_path"] = q] :
        u \in {None, <<>>, <<"u">>},
        r \in {None, <<>>, <<"r">>},
        h \in {None, <<>>, <<"h">>},
        p \in {None, <<>>, <<"/">>, <<"p">>, <<"/","/","p","/","x">>},
        q \in {None, <<>>, <<"q">>, <<"/","q">>} }

RomPrefixes == { None, <<>>, <<"b","/","c">> }

InitUrl ==
    /\ pc = "call"
    /\ ret = None
    /\ pos = 0
    /\ NoRun
    /\ \E g \in UrlRecords, b \in RomPrefixes :
           call = [fn |-> "resolve_rom_url", game |-> g, rom_prefix |-> b]

CallResolveRomUrl ==
    /\ pc = "call"
    /\ call.fn = "resolve_rom_url"
    /\ ret' = resolve_rom_url(call.game, call.rom_prefix)
    /\ pc' = "return"
    /\ UNCHANGED <<call, pos, run>>

NextUrl == CallResolveRomUrl

SpecUrl == InitUrl /\ [][NextUrl]_vars

\* key k is present in the record
Present(game, k) == game[k] # None

\* C8 as stated: the first present and non-empty of url, rom, href; otherwise,
\* when a rom_prefix is configured and path or rom_path is present, the prefix,
\* "/" and that path less its leading slashes; otherwise absent.
C8_PathPresent ==
    ReturnedFrom("resolve_rom_url") =>
        LET g == call.game
            b == call.rom_prefix
        IN IF Truthy(g["url"]) THEN ret = g["url"]
           ELSE IF Truthy(g["rom"]) THEN ret = g["rom"]
           ELSE IF Truthy(g["href"]) THEN ret = g["href"]
           ELSE IF Truthy(b) /\ Present(g, "path")
                THEN ret = b \o <<"/">> \o lstrip(g["path"], {"/"})
           ELSE IF Truthy(b) /\ Present(g, "rom_path")
                THEN ret = b \o <<"/">> \o lstrip(g["rom_path"], {"/"})
           ELSE ret = None

\* C8 amended: as stated, with "path or rom_path is present" read as "path or
\* rom_path is present and non-empty": the path used is the first non-empty of
\* path and rom_path, and a record whose path fields are all empty or missing
\* yields absent even with a rom_prefix.
C8_PathNonEmpty ==
    ReturnedFrom("resolve_rom_url") =>
        LET g == call.game
            b == call.rom_prefix
        IN IF Truthy(g["url"]) THEN ret = g["url"]
           ELSE IF Truthy(g["rom"]) THEN ret = g["rom"]
           ELSE IF Truthy(g["href"]) THEN ret = g["href"]
           ELSE IF Truthy(b) /\ Truthy(g["path"])
                THEN ret = b \o <<"/">> \o lstrip(g["path"], {"/"})
           ELSE IF Truthy(b) /\ Truthy(g["rom_path"])
                THEN ret = b \o <<"/">> \o lstrip(g["rom_path"], {"/"})
           ELSE ret = None

\* an empty path was passed over for rom_path, whose leading slash was cut
C8_Witness ==
    /\ ReturnedFrom("resolve_rom_url")
    /\ ~Truthy(call.game["url"]) /\ ~Truthy(call.game["rom"]) /\ ~Truthy(call.game["href"])
    /\ call.game["path"] = <<>>
    /\ call.game["rom_path"] = <<"/","q">>
    /\ ret = <<"b","/","c","/","q">>


(***************************************************************************)
(* map_system_name                                                         *)
(***************************************************************************)
\* A mapping table is a Python dict: a sequence of <<key, value>> pairs with
\* distinct keys, in the order of the JSON object.
HasKey(d, k) == \E i \in 1..Len(d) : d[i][1] = k

\* dict.get(k)
Get(d, k) ==
    IF HasKey(d, k) THEN d[CHOOSE i \in 1..Len(d) : d[i][1] = k][2] ELSE None

\* the folder is looked up before the name
map_system_name_folder_first(system, table) ==
    LET name == Or(system.name, system.platform_name)
        folder == system.folder
        byFolder == IF Truthy(folder)
                    THEN Or(Get(table, folder), Get(table, lower(folder)))
                    ELSE None
    IN IF ~Truthy(name) THEN None
       ELSE IF Truthy(byFolder) THEN byFolder
       ELSE IF Truthy(Get(table, name)) THEN Get(table, name)
       ELSE IF \E i \in 1..Len(table) : lower(table[i][1]) = lower(name)
            THEN table[CHOOSE i \in 1..Len(table) :
                          /\ lower(table[i][1]) = lower(name)
                          /\ \A j \in 1..(i-1) : lower(table[j][1]) # lower(name)][2]
            ELSE None

\* a system with no name is looked up by its folder instead of being skipped
map_system_name_without_name(system, table) ==
    LET name == Or(system.name, system.platform_name)
        folder == system.folder
        byFolder == IF Truthy(folder)
                    THEN Or(Get(table, folder), Get(table, lower(folder)))
                    ELSE None
    IN IF Truthy(name) /\ Truthy(Get(table, name)) THEN Get(table, name)
       ELSE IF Truthy(byFolder) THEN byFolder
       ELSE IF Truthy(name) /\ \E i \in 1..Len(table) : lower(table[i][1]) = lower(name)
            THEN table[CHOOSE i \in 1..Len(table) :
                          /\ lower(table[i][1]) = lower(name)
                          /\ \A j \in 1..(i-1) : lower(table[j][1]) # lower(name)][2]
            ELSE None

map_system_name(system, table) ==
    LET name == Or(system.name, system.platform_name)
        folder == system.folder
        byFolder == IF Truthy(folder)
                    THEN Or(Get(table, folder), Get(table, lower(folder)))
                    ELSE None
    IN IF ~Truthy(name) THEN None
       ELSE IF Truthy(Get(table, name)) THEN Get(table, name)
       ELSE IF Truthy(byFolder) THEN byFolder
       ELSE IF \E i \in 1..Len(table) : lower(table[i][1]) = lower(name)
            THEN table[CHOOSE i \in 1..Len(table) :
                          /\ lower(table[i][1]) = lower(name)
                          /\ \A j \in 1..(i-1) : lower(table[j][1]) # lower(name)][2]
            ELSE None

(***************************************************************************)
(* map_system_name, called on every system record and mapping table        *)
(***************************************************************************)
MaxMapping == 2

MappingKeys == { <<"n">>, <<"N">>, <<"f">>, <<"F">>, <<"p">> }

\* the platform type a key maps to: empty, or a type that names the key
MappingEntries ==
    { <<k, v>> : k \in MappingKeys, v \in {<<>>} } \cup
    { <<k, <<"t">> \o k>> : k \in MappingKeys }

MappingTables ==
    { d \in UNION { [1..n -> MappingEntries] : n \in 0..MaxMapping } :
        \A i, j \in 1..Len(d) : i # j => d[i][1] # d[j][1] }

SystemRecords ==
    [ name : {None, <<>>, <<"n">>, <<"N">>, <<"u">>},
      platform_name : {None, <<"p">>, <<"N">>},
      folder : {None, <<>>, <<"f">>, <<"F">>, <<"n">>} ]

InitMap ==
    /\ pc = "call"
    /\ ret = None
    /\ pos = 0
    /\ NoRun
    /\ \E sys \in SystemRecords, d \in MappingTables :
           call = [fn |-> "map_system_name", system |-> sys, mapping |-> d]

CallMapSystemName ==
    /\ pc = "call"
    /\ call.fn = "map_system_name"
    /\ ret' = map_system_name(call.system, call.mapping)
    /\ pc' = "return"
    /\ UNCHANGED <<call, pos, run>>

NextMap == CallMapSystemName

SpecMap == InitMap /\ [][NextMap]_vars

\* the values of the keys that equal the name when both are lower-cased
ScanValues(d, name) ==
    { d[i][2] : i \in { j \in 1..Len(d) : lower(d[j][1]) = lower(name) } }

\* C4 as stated: a system with no name and no platform_name yields absent;
\* otherwise a mapping key equal to the name decides, else a key equal to the
\* folder, else a key equal to the lower-cased folder, else a key equal to the
\* name when both are lower-cased; with no such key the result is absent.  (An
\* empty platform type and an absent one are not told apart here.)
C4_KeyPrecedence ==
    ReturnedFrom("map_system_name") =>
        LET sys == call.system
            d == call.mapping
            name == Or(sys.name, sys.platform_name)
            got == Or(ret, None)
        IN IF ~Truthy(name) THEN got = None
           ELSE IF HasKey(d, name) THEN got = Or(Get(d, name), None)
           ELSE IF Truthy(sys.folder) /\ HasKey(d, sys.folder)
                THEN got = Or(Get(d, sys.folder), None)
           ELSE IF Truthy(sys.folder) /\ HasKey(d, lower(sys.folder))
                THEN got = Or(Get(d, lower(sys.folder)), None)
           ELSE IF ScanValues(d, name) # {}
                THEN got \in { Or(v, None) : v \in ScanValues(d, name) }
           ELSE got = None

\* a key whose value is a non-empty platform type
Hit(d, k) == HasKey(d, k) /\ Truthy(Get(d, k))

\* C4 amended: the precedence holds among the keys that map to a non-empty
\* platform type: a name key or folder key whose value is empty is passed over
\* as if it were missing, so a folder match can win over an exact name key that
\* maps to nothing; the case-insensitive scan returns the value of the first
\* key, in table order, that equals the name when both are lower-cased, empty
\* or not.
C4_NonEmptyPrecedence ==
    ReturnedFrom("map_system_name") =>
        LET sys == call.system
            d == call.mapping
            name == Or(sys.name, sys.platform_name)
        IN IF ~Truthy(name) THEN ret = None
           ELSE IF Hit(d, name) THEN ret = Get(d, name)
           ELSE IF Truthy(sys.folder) /\ Hit(d, sys.folder)
                THEN ret = Get(d, sys.folder)
           ELSE IF Truthy(sys.folder) /\ Hit(d, lower(sys.folder))
                THEN ret = Get(d, lower(sys.folder))
           ELSE IF ScanValues(d, name) # {}
                THEN \E i \in 1..Len(d) :
                        /\ lower(d[i][1]) = lower(name)
                        /\ \A j \in 1..(i-1) : lower(d[j][1]) # lower(name)
                        /\ ret = d[i][2]
           ELSE ret = None

\* the name and the folder are both keys with a platform type: the name won
C4_Witness ==
    /\ ReturnedFrom("map_system_name")
    /\ call.system.name = <<"n">>
    /\ call.system.folder = <<"f">>
    /\ Hit(call.mapping, <<"n">>)
    /\ Hit(call.mapping, <<"f">>)
    /\ ret = <<"t","n">>


(***************************************************************************)
(* build_items, run entry by entry on every games list                     *)
(***************************************************************************)
MaxGames == 3

GameEntries ==
    { ListEntry(<< <<"a",".","g","b">>, <<"h","/","x",".","g","b">>, <<"4">> >>),
      ListEntry(<< <<" ">>, <<"h","/","y","%","2","0","z",".","M","D">> >>),
      ListEntry(<< >>),
      StrEntry(<<"a">>),
      OtherEntry,
      DictEntry(EmptyGame),
      DictEntry([EmptyGame EXCEPT !["name"] = <<"b">>, !["rom"] = <<"h","/","r">>,
                                  !["thumbnail"] = <<"i">>]),
      DictEntry([EmptyGame EXCEPT !["path"] = <<"/","p",".","g","b">>]),
      DictEntry([EmptyGame EXCEPT !["title"] = <<".","g","b">>, !["url"] = <<"h","/">>]),
      DictEntry([EmptyGame EXCEPT !["title"] = <<"c">>, !["url"] = <<>>,
                                  !["href"] = <<"h","/","c">>, !["banner"] = <<"k">>]) }

GamesLists == UNION { [1..n -> GameEntries] : n \in 0..MaxGames }

InitItems ==
    /\ pc = "loop"
    /\ ret = <<>>
    /\ pos = 0
    /\ NoRun
    /\ \E games \in GamesLists, b \in {None, <<"b">>} :
           call = [fn |-> "build_items", games |-> games,
                   system_type |-> <<"n","e","s">>, rom_prefix |-> b]

\* lines 200-225: the next entry of games goes through the loop body
BuildItemsLoop ==
    /\ pc = "loop"
    /\ call.fn = "build_items"
    /\ pos < Len(call.games)
    /\ ret' = build_items_step(ret, call.games[pos + 1], call.system_type,
                               call.rom_prefix)
    /\ pos' = pos + 1
    /\ UNCHANGED <<pc, call, run>>

\* line 227
BuildItemsReturn ==
    /\ pc = "loop"
    /\ call.fn = "build_items"
    /\ pos = Len(call.games)
    /\ pc' = "return"
    /\ UNCHANGED <<call, ret, pos, run>>

NextItems == BuildItemsLoop \/ BuildItemsReturn

SpecItems == InitItems /\ [][NextItems]_vars

\* the locator and the title of a raw entry
LocatorOf(entry, rom_prefix) ==
    resolve_rom_url(normalize_game_entry(entry), rom_prefix)

TitleOf(entry, rom_prefix) ==
    LET game == normalize_game_entry(entry)
    IN clean_title(Or(game["title"], game["name"]), LocatorOf(entry, rom_prefix))

\* item carries the title and the locator of entry
ComesFrom(item, entry, rom_prefix) ==
    /\ Truthy(LocatorOf(entry, rom_prefix))
    /\ Truthy(TitleOf(entry, rom_prefix))
    /\ item.props.rom = LocatorOf(entry, rom_prefix)
    /\ item.title = TitleOf(entry, rom_prefix)

RECURSIVE Embeds(_, _, _)
\* items match, one to one and in order, the entries of a subsequence of games
\* in which no entry with both a locator and a title is passed over
Embeds(items, games, rom_prefix) ==
    IF games = <<>> THEN items = <<>>
    ELSE IF items # <<>> /\ ComesFrom(Head(items), Head(games), rom_prefix)
         THEN Embeds(Tail(items), Tail(games), rom_prefix)
         ELSE /\ ~(Truthy(LocatorOf(Head(games), rom_prefix))
                   /\ Truthy(TitleOf(Head(games), rom_prefix)))
              /\ Embeds(items, Tail(games), rom_prefix)

\* C2: whatever the entries consumed so far, every item has a non-empty title
\* and a non-empty props.rom, an entry with no locator or no derivable title
\* has no item, and the items are, in order, those of the remaining entries.
C2_ItemsAreOrderedSubsequence ==
    call.fn = "build_items" =>
        /\ \A k \in 1..Len(ret) :
              /\ Truthy(ret[k].title) /\ strip(ret[k].title) = ret[k].title
              /\ Truthy(ret[k].props.rom)
              /\ ret[k].type = call.system_type
        /\ Len(ret) <= pos
        /\ Embeds(ret, SubSeq(call.games, 1, pos), call.rom_prefix)

\* three entries were consumed: the first and the third gave the two items,
\* the second, a bare string with no locator, gave none
C2_Witness ==
    /\ ReturnedFrom("build_items")
    /\ Len(call.games) = 3
    /\ call.games[2] = StrEntry(<<"a">>)
    /\ Len(ret) = 2
    /\ ret[1].title = <<"a">> /\ ret[1].props.rom = <<"h","/","x",".","g","b">>
    /\ ret[2].title = <<"b">> /\ ret[2].props.rom = <<"h","/","r">>


(***************************************************************************)
(* build_config                                                            *)
(***************************************************************************)
\* An Optional value that is not a string is <<>> for None and <<v>> for v.
\* os.environ is a record of the variables read; an unset variable holds None.
EnvNames == { "FEED_TITLE", "FEED_DESCRIPTION", "FEED_CATEGORY_PREFIX",
              "ROM_PREFIX_URL", "NEOGEO_BIOS_URL", "PSX_BIOS_URLS" }

NoEnv == [k \in EnvNames |-> None]

\* os.environ.get(k, default)
EnvGet(env, k, default) == IF env[k] = None THEN default ELSE env[k]

\* the defaults of build_config, each URL and text shortened to a few
\* characters: "RGSX Library", "Generated from RGSX caches on ...",
\* ".../BIOS/neogeo.zip", ".../scph5500.bin,.../scph5501.bin,.../scph5502.bin"
DEFAULT_FEED_TITLE == <<"R","G","S","X">>
DEFAULT_FEED_DESCRIPTION == <<"G","e","n">>
DEFAULT_NEOGEO_BIOS_URL == <<"n","e","o">>
DEFAULT_PSX_BIOS_URLS == <<"5","0",",","5","1",",","5","2">>

RECURSIVE StripNonBlank(_)
\* [url.strip() for url in pieces if url.strip()]
StripNonBlank(pieces) ==
    IF pieces = <<>> THEN <<>>
    ELSE IF strip(Head(pieces)) # <<>>
         THEN <<strip(Head(pieces))>> \o StripNonBlank(Tail(pieces))
         ELSE StripNonBlank(Tail(pieces))

\* PSX_BIOS_URLS has no default: unset, the list is None
build_config_no_psx_default(env) ==
    LET rom_prefix_url == env["ROM_PREFIX_URL"]
        psx_bios_env == env["PSX_BIOS_URLS"]
    IN [ feed_title |-> EnvGet(env, "FEED_TITLE", DEFAULT_FEED_TITLE),
         feed_description |-> EnvGet(env, "FEED_DESCRIPTION", DEFAULT_FEED_DESCRIPTION),
         category_prefix |-> EnvGet(env, "FEED_CATEGORY_PREFIX", <<>>),
         rom_prefix_url |-> IF Truthy(rom_prefix_url)
                            THEN rstrip(rom_prefix_url, {"/"}) ELSE None,
         neogeo_bios_url |-> EnvGet(env, "NEOGEO_BIOS_URL", DEFAULT_NEOGEO_BIOS_URL),
         psx_bios_urls |-> IF Truthy(psx_bios_env)
                           THEN <<StripNonBlank(split(psx_bios_env, ","))>>
                           ELSE <<>> ]

build_config(env) ==
    LET rom_prefix_url == env["ROM_PREFIX_URL"]
        psx_bios_env == EnvGet(env, "PSX_BIOS_URLS", DEFAULT_PSX_BIOS_URLS)
    IN [ feed_title |-> EnvGet(env, "FEED_TITLE", DEFAULT_FEED_TITLE),
         feed_description |-> EnvGet(env, "FEED_DESCRIPTION", DEFAULT_FEED_DESCRIPTION),
         category_prefix |-> EnvGet(env, "FEED_CATEGORY_PREFIX", <<>>),
         rom_prefix_url |-> IF Truthy(rom_prefix_url)
                            THEN rstrip(rom_prefix_url, {"/"}) ELSE None,
         neogeo_bios_url |-> EnvGet(env, "NEOGEO_BIOS_URL", DEFAULT_NEOGEO_BIOS_URL),
         psx_bios_urls |-> IF Truthy(psx_bios_env)
                           THEN <<StripNonBlank(split(psx_bios_env, ","))>>
                           ELSE <<>> ]

(***************************************************************************)
(* generate_feed                                                           *)
(***************************************************************************)
\* A file is readable or not (missing, not JSON, unreadable); json is what
\* json.load returns from a readable one.
Unreadable == [readable |-> FALSE, json |-> <<>>]
JsonFile(v) == [readable |-> TRUE, json |-> v]

\* load_json: <<>> for None
load_json(file) == IF file.readable THEN <<file.json>> ELSE <<>>

\* the fallback display name of line 262
Unknown == <<"U","n","k","n","o","w","n">>

\* the feed shell of lines 241-255; props is <<>> when the key is not set
feed_shell(cfg) ==
    LET feed_props ==
            [ neogeo_bios |-> IF Truthy(cfg.neogeo_bios_url)
                              THEN cfg.neogeo_bios_url ELSE None,
              psx_bios |-> IF cfg.psx_bios_urls # <<>> /\ cfg.psx_bios_urls[1] # <<>>
                           THEN cfg.psx_bios_urls ELSE <<>> ]
    IN [ title |-> cfg.feed_title,
         longTitle |-> cfg.feed_title,
         description |-> cfg.feed_description,
         categories |-> <<>>,
         props |-> IF feed_props.neogeo_bios # None \/ feed_props.psx_bios # <<>>
                   THEN <<feed_props>> ELSE <<>> ]

\* line 262
system_name_of(system) == Or(Or(system.platform_name, system.name), Unknown)

\* the file games_dir / "<system_name>.json"
games_file(files, system_name) ==
    IF system_name \in DOMAIN files.games THEN files.games[system_name] ELSE Unreadable

\* the loop body without the check of line 270: a system with no valid item
\* gets a category too
process_system_keep_empty(fd, system, table, files, cfg) ==
    LET system_type == map_system_name(system, table)
        system_name == system_name_of(system)
        games == load_json(games_file(files, system_name))
    IN IF ~Truthy(system_type) \/ games = <<>> THEN fd
       ELSE [fd EXCEPT !.categories =
                Append(@, [title |-> cfg.category_prefix \o system_name,
                           items |-> build_items(games[1], system_type, cfg.rom_prefix_url)])]

\* lines 258-275: the feed after one pass of the loop body
process_system(fd, system, table, files, cfg) ==
    LET system_type == map_system_name(system, table)
        system_name == system_name_of(system)
        games == load_json(games_file(files, system_name))
        items == build_items(games[1], system_type, cfg.rom_prefix_url)
    IN IF ~Truthy(system_type) \/ games = <<>> THEN fd
       ELSE IF items = <<>> THEN fd
       ELSE [fd EXCEPT !.categories =
                Append(@, [title |-> cfg.category_prefix \o system_name,
                           items |-> items])]

\* the zero-categories check left out
no_categories_unchecked(fd) == FALSE

\* line 277
no_categories(fd) == fd.categories = <<>>

\* json.dumps(feed, indent=2), cut into the pieces a failing write can stop
\* between: the head, one piece per category, and the props that end the
\* document (a dict is written in the order its keys were set)
NoHead == [title |-> <<>>, longTitle |-> <<>>, description |-> <<>>]
NoCategory == [title |-> <<>>, items |-> <<>>]

Serialize(fd) ==
    << [kind |-> "head",
        head |-> [title |-> fd.title, longTitle |-> fd.longTitle,
                  description |-> fd.description],
        category |-> NoCategory, props |-> <<>>] >>
    \o [k \in 1..Len(fd.categories) |->
          [kind |-> "category", head |-> NoHead,
           category |-> fd.categories[k], props |-> <<>>]]
    \o << [kind |-> "tail", head |-> NoHead, category |-> NoCategory,
           props |-> fd.props] >>

\* what config.output_path holds before the run
PreviousContent ==
    << [kind |-> "previous", head |-> NoHead, category |-> NoCategory, props |-> <<>>] >>

\* main, lines 309-318
Main ==
    /\ pc = "main"
    /\ config' = build_config(call.env)
    /\ pc' = "load_systems"
    /\ UNCHANGED <<call, ret, pos, systems, mapping, feed, log, opened, stdout,
                   output_file>>

\* lines 231-234
LoadSystems ==
    /\ pc = "load_systems"
    /\ IF load_json(call.files.systems_list) = <<>>
       THEN /\ log' = log \o <<"ERROR load_json", "ERROR Unable to load systems list.">>
            /\ ret' = 1
            /\ pc' = "return"
            /\ UNCHANGED systems
       ELSE /\ systems' = load_json(call.files.systems_list)[1]
            /\ pc' = "load_mapping"
            /\ UNCHANGED <<ret, log>>
    /\ UNCHANGED <<call, pos, config, mapping, feed, opened, stdout, output_file>>

\* lines 236-239
LoadMapping ==
    /\ pc = "load_mapping"
    /\ IF load_json(call.files.system_mapping) = <<>>
       THEN /\ log' = log \o <<"ERROR load_json", "ERROR Unable to load system mapping.">>
            /\ ret' = 1
            /\ pc' = "return"
            /\ UNCHANGED mapping
       ELSE /\ mapping' = load_json(call.files.system_mapping)[1]
            /\ pc' = "init_feed"
            /\ UNCHANGED <<ret, log>>
    /\ UNCHANGED <<call, pos, config, systems, feed, opened, stdout, output_file>>

\* lines 241-255
InitFeed ==
    /\ pc = "init_feed"
    /\ feed' = feed_shell(config)
    /\ pos' = 0
    /\ pc' = "loop"
    /\ UNCHANGED <<call, ret, config, systems, mapping, log, opened, stdout,
                   output_file>>

\* lines 257-275: the next system goes through the loop body
ProcessSystem ==
    /\ pc = "loop"
    /\ pos < Len(systems)
    /\ LET system == systems[pos + 1]
           system_type == map_system_name(system, mapping)
           system_name == system_name_of(system)
           named == Truthy(Or(system.name, system.platform_name))
       IN /\ feed' = process_system(feed, system, mapping, call.files, config)
          /\ opened' = IF Truthy(system_type) THEN Append(opened, system_name)
                       ELSE opened
          /\ log' = IF ~Truthy(system_type)
                    THEN IF named /\ system_type = None
                         THEN Append(log, "WARNING System is not mapped; skipping.")
                         ELSE log
                    ELSE IF load_json(games_file(call.files, system_name)) = <<>>
                         THEN log \o <<"ERROR load_json",
                                       "WARNING Skipping system; games file missing or invalid.">>
                         ELSE log
    /\ pos' = pos + 1
    /\ UNCHANGED <<pc, call, ret, config, systems, mapping, stdout, output_file>>

\* lines 277-279, once the loop is over
CheckCategories ==
    /\ pc = "loop"
    /\ pos = Len(systems)
    /\ IF no_categories(feed)
       THEN /\ log' = Append(log, "ERROR No categories generated; feed will not be written.")
            /\ ret' = 1
            /\ pc' = "return"
       ELSE /\ pc' = "emit"
            /\ UNCHANGED <<ret, log>>
    /\ UNCHANGED <<call, pos, config, systems, mapping, feed, opened, stdout,
                   output_file>>

\* lines 281-285: the dry run prints the feed; otherwise mkdir, outside the
\* try block, either makes the parent directory or raises OSError to the caller
Emit ==
    /\ pc = "emit"
    /\ IF call.dry_run
       THEN /\ stdout' = Serialize(feed)
            /\ ret' = 0
            /\ pc' = "return"
       ELSE /\ \E made \in BOOLEAN : pc' = IF made THEN "open" ELSE "raised"
            /\ UNCHANGED <<stdout, ret>>
    /\ UNCHANGED <<call, pos, config, systems, mapping, feed, log, opened,
                   output_file>>

\* line 287: open(..., "w") truncates the file, or raises OSError, which line
\* 290 catches
Open ==
    /\ pc = "open"
    /\ \E opens \in BOOLEAN :
          IF opens
          THEN /\ output_file' = <<>>
               /\ pc' = "dump"
               /\ UNCHANGED <<ret, log>>
          ELSE /\ log' = Append(log, "ERROR Failed to write feed")
               /\ ret' = 1
               /\ pc' = "return"
               /\ UNCHANGED output_file
    /\ UNCHANGED <<call, pos, config, systems, mapping, feed, opened, stdout>>

\* lines 288-294: json.dump writes the next piece, or the file is closed once
\* all are written; a write or the close can raise OSError, which line 290
\* catches
Dump ==
    /\ pc = "dump"
    /\ \E written \in BOOLEAN :
          IF ~written
          THEN /\ log' = Append(log, "ERROR Failed to write feed")
               /\ ret' = 1
               /\ pc' = "return"
               /\ UNCHANGED output_file
          ELSE IF Len(output_file) < Len(Serialize(feed))
          THEN /\ output_file' = Append(output_file, Serialize(feed)[Len(output_file) + 1])
               /\ UNCHANGED <<pc, ret, log>>
          ELSE /\ ret' = 0
               /\ pc' = "return"
               /\ UNCHANGED <<output_file, log>>
    /\ UNCHANGED <<call, pos, config, systems, mapping, feed, opened, stdout>>

Next ==
    \/ Main
    \/ LoadSystems
    \/ LoadMapping
    \/ InitFeed
    \/ ProcessSystem
    \/ CheckCategories
    \/ Emit
    \/ Open
    \/ Dump


(***************************************************************************)
(* Runs of main over systems lists, mapping tables and games files         *)
(***************************************************************************)
MaxSystems == 2

System(n, p, f) == [name |-> n, platform_name |-> p, folder |-> f]

SystemSamples ==
    { System(<<"n">>, None, None),        \* mapped by its name
      System(<<"n">>, <<"p">>, None),     \* mapped by name, shown as platform_name
      System(None, <<>>, <<"n">>),        \* no name: only the folder is a key
      System(<<"u">>, None, <<>>),        \* not in the first mapping table
      System(<<"N">>, None, None) }       \* mapped by the case-insensitive scan

SystemsLists == UNION { [1..n -> SystemSamples] : n \in 0..MaxSystems }

MappingSamples ==
    { << <<<<"n">>, <<"n","e","s">>>> >>,
      << <<<<"n">>, <<>>>>, <<<<"u">>, <<"p","c","e">>>>, <<<<"N">>, <<"m","d">>>> >> }

GoodGames == << ListEntry(<< <<"a",".","g","b">>, <<"h","/","x",".","g","b">>, <<"4">> >>) >>

MixedGames ==
    << StrEntry(<<"a">>),
       DictEntry([EmptyGame EXCEPT !["name"] = <<"b">>, !["rom"] = <<"h","/","r">>]),
       DictEntry([EmptyGame EXCEPT !["path"] = <<"/","p",".","g","b">>]) >>

BadGames == << StrEntry(<<"a">>), DictEntry(EmptyGame) >>

\* the games directory: which <name>.json files there are and what they hold
GamesDirs ==
    { ( <<"n">> :> JsonFile(GoodGames) @@ <<"p">> :> JsonFile(MixedGames)
        @@ <<"u">> :> JsonFile(BadGames) @@ Unknown :> JsonFile(GoodGames) ),
      ( <<"p">> :> JsonFile(GoodGames) @@ <<"u">> :> JsonFile(MixedGames)
        @@ <<"N">> :> JsonFile(GoodGames) @@ <<"n">> :> Unreadable ),
      ( <<"n">> :> JsonFile(<<>>) @@ <<"N">> :> JsonFile(BadGames) ) }

InitRun ==
    /\ pc = "main"
    /\ ret = None
    /\ pos = 0
    /\ config = None /\ systems = None /\ mapping = None /\ feed = None
    /\ log = <<>> /\ opened = <<>> /\ stdout = <<>>
    /\ output_file = PreviousContent

Init ==
    /\ InitRun
    /\ \E sl \in {Unreadable} \cup { JsonFile(l) : l \in SystemsLists },
          sm \in {Unreadable} \cup { JsonFile(m) : m \in MappingSamples },
          gd \in GamesDirs,
          prefix \in {None, <<"c","-">>},
          dry \in BOOLEAN :
          call = [ fn |-> "main",
                   env |-> [NoEnv EXCEPT !["FEED_CATEGORY_PREFIX"] = prefix,
                                         !["ROM_PREFIX_URL"] = <<"b","/">>],
                   dry_run |-> dry,
                   files |-> [systems_list |-> sl, system_mapping |-> sm, games |-> gd] ]

Spec == Init /\ [][Next]_vars

(***************************************************************************)
(* Claims about generate_feed                                              *)
(***************************************************************************)
Finished == pc \in {"return", "raised"}

\* both input files were loaded and the feed shell exists
Loaded ==
    /\ call.fn = "main"
    /\ call.files.systems_list.readable
    /\ call.files.system_mapping.readable
    /\ pc \in {"loop", "emit", "open", "dump", "return", "raised"}

\* nothing of the feed has left the program
NothingEmitted == stdout = <<>> /\ output_file = PreviousContent

\* C1: a run returns 0 only with at least one category in the feed; with zero
\* categories (and on a failed load) it returns 1 and the feed is neither
\* printed nor written.
C1_ZeroCategoriesNotEmitted ==
    call.fn = "main" =>
        /\ (pc = "return" /\ ret = 0) => (Loaded /\ Len(feed.categories) >= 1)
        /\ ~NothingEmitted => (Loaded /\ Len(feed.categories) >= 1)
        /\ (Loaded /\ pos = Len(systems) /\ feed.categories = <<>> /\ Finished)
               => (pc = "return" /\ ret # 0)

\* a dry run over systems that all fail returned 1 and printed nothing
C1_Witness ==
    /\ Loaded /\ pc = "return" /\ ret = 1
    /\ Len(systems) = 2 /\ pos = 2
    /\ feed.categories = <<>>
    /\ call.dry_run
    /\ NothingEmitted

\* the system maps, its games file loads and some entry has a locator and a
\* title
Succeeds(system) ==
    /\ Truthy(map_system_name(system, mapping))
    /\ games_file(call.files, system_name_of(system)).readable
    /\ \E k \in 1..Len(games_file(call.files, system_name_of(system)).json) :
          LET entry == games_file(call.files, system_name_of(system)).json[k]
          IN /\ Truthy(LocatorOf(entry, config.rom_prefix_url))
             /\ Truthy(TitleOf(entry, config.rom_prefix_url))

RECURSIVE SucceedingBefore(_)
\* the systems among the first n of the list that succeed, in list order
SucceedingBefore(n) ==
    IF n = 0 THEN <<>>
    ELSE IF Succeeds(systems[n])
         THEN Append(SucceedingBefore(n - 1), systems[n])
         ELSE SucceedingBefore(n - 1)

\* the categories are those of the succeeding systems among the pos consumed,
\* in list order, each with the items of its system's games file
CategoriesFollowSystems ==
    LET good == SucceedingBefore(pos)
    IN /\ Len(feed.categories) = Len(good)
       /\ \A k \in 1..Len(good) :
             /\ feed.categories[k].items # <<>>
             /\ Embeds(feed.categories[k].items,
                       games_file(call.files, system_name_of(good[k])).json,
                       config.rom_prefix_url)

\* once the lists are loaded a run ends only after the last system
NeverAborted == (Loaded /\ pc # "loop") => pos = Len(systems)

C6_NoPartialOutput ==
    (call.fn = "main" /\ Finished /\ ~(pc = "return" /\ ret = 0)) =>
        \/ output_file = PreviousContent
        \/ Loaded /\ output_file = Serialize(feed)

\* the display name of a system that has one
DisplayName(system) ==
    IF Truthy(system.platform_name) THEN system.platform_name ELSE system.name

\* C10: every category title is the prefix followed by the platform_name of
\* its system, or by its name when platform_name is absent or empty; the items
\* have the type the name maps to when the name is a key with a platform type;
\* and the fallback name "Unknown" is in no category title and names no games
\* file that was asked for.
C10_TitleFromPlatformNameTypeFromName ==
    Loaded =>
        LET good == SucceedingBefore(pos)
        IN /\ Len(feed.categories) = Len(good)
           /\ \A k \in 1..Len(good) :
                 /\ Truthy(DisplayName(good[k]))
                 /\ feed.categories[k].title =
                        config.category_prefix \o DisplayName(good[k])
                 /\ feed.categories[k].title # config.category_prefix \o Unknown
                 /\ (Truthy(good[k].name) /\ Hit(mapping, good[k].name)) =>
                        \A i \in 1..Len(feed.categories[k].items) :
                            feed.categories[k].items[i].type = Get(mapping, good[k].name)
           /\ \A i \in 1..Len(opened) : opened[i] # Unknown
           /\ Len(opened) <= pos

\* a system whose platform_name is not a mapping key was mapped by its name
\* and titled by its platform_name; a system with no name was passed over
C10_Witness ==
    /\ Loaded /\ Finished
    /\ Len(systems) = 2
    /\ systems[1] = System(None, <<>>, <<"n">>)
    /\ systems[2] = System(<<"n">>, <<"p">>, None)
    /\ ~HasKey(mapping, <<"p">>)
    /\ Len(feed.categories) = 1
    /\ feed.categories[1].title = <<"c","-","p">>
    /\ feed.categories[1].items[1].type = <<"n","e","s">>
    /\ opened = << <<"p">> >>

(***************************************************************************)
(* Runs of main over the BIOS settings of the environment                  *)
(***************************************************************************)
MaxBiosTokens == 5

BiosTokens == { <<"u">>, <<"v">>, <<",">>, <<" ">> }

BiosSettings == {None} \cup StringsOf(BiosTokens, MaxBiosTokens)

InitBios ==
    /\ InitRun
    /\ \E psx \in BiosSettings, neogeo \in {None, <<>>, <<"g">>}, dry \in BOOLEAN :
          call = [ fn |-> "main",
                   env |-> [NoEnv EXCEPT !["PSX_BIOS_URLS"] = psx,
                                         !["NEOGEO_BIOS_URL"] = neogeo],
                   dry_run |-> dry,
                   files |-> [ systems_list |-> JsonFile(<<System(<<"n">>, None, None)>>),
                               system_mapping |-> JsonFile(<< <<<<"n">>, <<"n","e","s">>>> >>),
                               games |-> (<<"n">> :> JsonFile(GoodGames)) ] ]

SpecBios == InitBios /\ [][Next]_vars

\* the feed has a props.psx_bios key
HasPsxBios == feed.props # <<>> /\ feed.props[1].psx_bios # <<>>

\* the setting is three URLs separated by two commas
ThreeUrls(setting) ==
    /\ Truthy(setting)
    /\ Len(split(setting, ",")) = 3
    /\ \A k \in 1..3 : strip(split(setting, ",")[k]) # <<>>

\* C7 as stated: three comma-separated URLs give psx_bios as those three in
\* the given order; with the setting omitted the feed has no psx_bios key; and
\* props is present only when a BIOS value is.
C7_OmittedMeansNoKey ==
    Loaded =>
        LET setting == call.env["PSX_BIOS_URLS"]
        IN /\ ThreeUrls(setting) =>
                 /\ HasPsxBios
                 /\ feed.props[1].psx_bios[1] =
                        [k \in 1..3 |-> strip(split(setting, ",")[k])]
           /\ setting = None => ~HasPsxBios
           /\ feed.props # <<>> =>
                 (feed.props[1].neogeo_bios # None \/ feed.props[1].psx_bios # <<>>)

\* C7 amended: three comma-separated URLs give psx_bios as those three,
\* trimmed, in the given order; with the setting omitted psx_bios is the three
\* built-in default URLs; the key is missing only when the setting is set and
\* holds no URL (it is empty, or only commas and blanks); and props is present
\* exactly when a BIOS value is.
C7_OmittedMeansDefaults ==
    Loaded =>
        LET setting == call.env["PSX_BIOS_URLS"]
        IN /\ ThreeUrls(setting) =>
                 /\ HasPsxBios
                 /\ feed.props[1].psx_bios[1] =
                        [k \in 1..3 |-> strip(split(setting, ",")[k])]
           /\ setting = None =>
                 /\ HasPsxBios
                 /\ feed.props[1].psx_bios[1] = << <<"5","0">>, <<"5","1">>, <<"5","2">> >>
           /\ ~HasPsxBios <=>
                 /\ setting # None
                 /\ \A k \in 1..Len(split(setting, ",")) :
                       strip(split(setting, ",")[k]) = <<>>
           /\ feed.props # <<>> <=>
                 (Truthy(EnvGet(call.env, "NEOGEO_BIOS_URL", DEFAULT_NEOGEO_BIOS_URL))
                  \/ HasPsxBios)

\* three comma-separated URLs became the three-element list of the feed
C7_Witness ==
    /\ Loaded /\ pc = "return" /\ ret = 0
    /\ call.env["PSX_BIOS_URLS"] = <<"u", ",", "v", ",", "u">>
    /\ feed.props[1].psx_bios[1] = << <<"u">>, <<"v">>, <<"u">> >>

=============================================================================
